---------------------------- MODULE Spec2Model ----------------------------
(***************************************************************************)
(* Model of dpvslam/scatter_ops.py: scatter_sum, _expand_index,            *)
(* scatter_max and scatter_softmax over dense tensors.                     *)
(*                                                                         *)
(* Element type.  Tensor elements are floating-point numbers.  The model   *)
(* uses a small floating-point format: a finite value is an integer count  *)
(* of quanta of 10^-6 (1.0 is Scale), the largest finite magnitude is      *)
(* MaxWhole.0, results beyond it overflow to +/-infinity, and NaN is the   *)
(* result of inf - inf and 0/0, exactly as in IEEE arithmetic.  Infinities *)
(* are encoded just beyond the finite range, so the integer order is the   *)
(* order of the values.                                                    *)
(***************************************************************************)
EXTENDS Integers, Sequences, FiniteSets, TLC

\* ------------------------------------------------------------------ bounds
MaxWhole == 100     \* largest finite magnitude of the element format
MaxLen == 3         \* largest size of a rank-1 source along dim
MaxSide == 2        \* largest size of one dimension of a rank-2 or rank-3 tensor
MaxG == 2           \* group ids are drawn from 0 .. MaxG-1
MaxElems == 4       \* most elements of an enumerated index and of a rank-2 scatter source

\* ------------------------------------------------------- element arithmetic
Scale == 10 * 10 * 10 * 10 * 10 * 10
MaxFinite == MaxWhole * Scale
PosInf == MaxFinite + 1
NegInf == 0 - PosInf
NaN == PosInf + 1
Eps == PosInf + 2          \* the clamp floor 1e-12, below one quantum
One == Scale

IsFinite(x) == x >= 0 - MaxFinite /\ x <= MaxFinite

Saturate(n) ==
  IF n > MaxFinite THEN PosInf ELSE IF n < 0 - MaxFinite THEN NegInf ELSE n

\* a + b of the element type (out.scatter_add accumulates with it)
Add(a, b) ==
  IF a = NaN \/ b = NaN THEN NaN
  ELSE IF (a = PosInf /\ b = NegInf) \/ (a = NegInf /\ b = PosInf) THEN NaN
  ELSE IF a = PosInf \/ b = PosInf THEN PosInf
  ELSE IF a = NegInf \/ b = NegInf THEN NegInf
  ELSE Saturate(a + b)

\* a - b of the element type
Sub(a, b) ==
  Add(a, IF b = NaN THEN NaN ELSE 0 - b)

\* the "amax" reduction of two elements: NaN propagates
Amax(a, b) ==
  IF a = NaN \/ b = NaN THEN NaN ELSE IF a >= b THEN a ELSE b

\* exp of a whole-number argument k, correctly rounded to the quantum
ExpWhole(k) ==
  CASE k <= -15 -> 0
    [] k = -14 -> 1
    [] k = -13 -> 2
    [] k = -12 -> 6
    [] k = -11 -> 17
    [] k = -10 -> 45
    [] k = -9 -> 123
    [] k = -8 -> 335
    [] k = -7 -> 912
    [] k = -6 -> 2479
    [] k = -5 -> 6738
    [] k = -4 -> 18316
    [] k = -3 -> 49787
    [] k = -2 -> 135335
    [] k = -1 -> 367879
    [] k = 0 -> 1000000
    [] k = 1 -> 2718282
    [] k = 2 -> 7389056
    [] k = 3 -> 20085537
    [] k = 4 -> 54598150
    [] k >= 5 -> PosInf

\* x.exp(); finite arguments of the model are whole numbers
Exp(x) ==
  CASE x = NaN -> NaN
    [] x = PosInf -> PosInf
    [] x = NegInf -> 0
    [] IsFinite(x) /\ x % Scale = 0 -> ExpWhole(x \div Scale)

RECURSIVE LongDiv(_, _, _, _)
\* digits more decimal digits of the quotient whose integer part is q, rest r
LongDiv(q, r, b, digits) ==
  IF digits = 0
  THEN IF 2 * r > b \/ (2 * r = b /\ q % 2 = 1) THEN q + 1 ELSE q
  ELSE LongDiv(q * 10 + ((r * 10) \div b), (r * 10) % b, b, digits - 1)

Abs(n) == IF n < 0 THEN 0 - n ELSE n
Sign(n) == IF n < 0 THEN -1 ELSE 1

\* a / b for finite a and finite b # 0, rounded to the nearest quantum
DivFinite(a, b) ==
  LET aa == Abs(a)
      bb == Abs(b)
      s == Sign(a) * Sign(b)
  IN IF aa \div bb > MaxWhole THEN (IF s > 0 THEN PosInf ELSE NegInf)
     ELSE Saturate(s * LongDiv(aa \div bb, aa % bb, bb, 6))

\* a / b of the element type; the divisor may be the clamp floor Eps
Div(a, b) ==
  CASE a = NaN \/ b = NaN -> NaN
    [] b = Eps -> IF a = 0 THEN 0 ELSE IF a > 0 THEN PosInf ELSE NegInf
    [] ~IsFinite(a) /\ ~IsFinite(b) -> NaN
    [] ~IsFinite(a) -> IF (a > 0) = (b >= 0) THEN PosInf ELSE NegInf
    [] ~IsFinite(b) -> 0
    [] b = 0 -> IF a = 0 THEN NaN ELSE IF a > 0 THEN PosInf ELSE NegInf
    [] OTHER -> DivFinite(a, b)

\* mutant of Clamp: the floor is forgotten
ClampNone(x) == x

\* x.clamp(min=1e-12): every value of the format below one quantum is <= 0
Clamp(x) ==
  IF x = NaN THEN NaN ELSE IF x <= 0 THEN Eps ELSE x

\* ------------------------------------------------------------------ tensors
\* A tensor is a shape (a sequence of sizes) and its elements by coordinate
\* (a sequence of 0-based positions, one per dimension).
Rank(t) == Len(t.shape)

RECURSIVE CoordsUpTo(_, _)
CoordsUpTo(shape, i) ==
  IF i = 0 THEN {<<>>}
  ELSE {Append(c, k) : c \in CoordsUpTo(shape, i - 1), k \in 0 .. shape[i] - 1}

\* every coordinate of a tensor of the given shape
Coords(shape) == CoordsUpTo(shape, Len(shape))

RECURSIVE NumElUpTo(_, _)
NumElUpTo(shape, i) == IF i = 0 THEN 1 ELSE NumElUpTo(shape, i - 1) * shape[i]

\* t.numel()
NumEl(shape) == NumElUpTo(shape, Len(shape))

RECURSIVE FlatUpTo(_, _, _)
FlatUpTo(c, shape, i) ==
  IF i = 0 THEN 0 ELSE FlatUpTo(c, shape, i - 1) * shape[i] + c[i]

\* position of coordinate c in the row-major (contiguous) layout
FlatPos(c, shape) == FlatUpTo(c, shape, Len(shape))

\* the coordinate at row-major position k
Unflat(k, shape) == CHOOSE c \in Coords(shape) : FlatPos(c, shape) = k

Tensor(shape, data) == [shape |-> shape, data |-> data]

NoTensor == [shape |-> <<0>>, data |-> <<>>]

\* a sequence index as Python and torch read it: negative counts from the end
Pos(dim, rank) == (IF dim < 0 THEN dim + rank ELSE dim) + 1

\* a coordinate of the broadcast result read in an operand of shape s
Clip(c, s) == [i \in 1 .. Len(s) |-> IF s[i] = 1 THEN 0 ELSE c[i]]

\* t.expand(shape), same rank: a size-1 dimension stretches, others must agree
CanExpand(from, to) ==
  /\ Len(from) = Len(to)
  /\ \A i \in 1 .. Len(to) : from[i] = to[i] \/ from[i] = 1

Expand(t, shape) ==
  LET at(c) == t.data[Clip(c, t.shape)] IN Tensor(shape, [c \in Coords(shape) |-> at(c)])

\* t.view(shape) of a contiguous tensor: same elements in row-major order
View(t, shape) ==
  LET at(c) == t.data[Unflat(FlatPos(c, shape), t.shape)] IN Tensor(shape, [c \in Coords(shape) |-> at(c)])

\* torch.zeros(shape) / torch.full(shape, v)
Full(shape, v) == LET at(c) == v IN Tensor(shape, [c \in Coords(shape) |-> at(c)])

\* ------------------------------------------------------------ _expand_index
ExpandSame(index, src) ==
  IF CanExpand(index.shape, src.shape)
  THEN [ok |-> TRUE, t |-> Expand(index, src.shape)]
  ELSE [ok |-> FALSE, t |-> NoTensor]

\* mutant of ViewShape: the elements are laid along the first dimension
ViewShapeFirst(index, src, dim) ==
  [i \in 1 .. Rank(src) |-> IF i = 1 THEN NumEl(index.shape) ELSE 1]

ViewShape(index, src, dim) ==
  [i \in 1 .. Rank(src) |->
     IF i = Pos(dim, Rank(src)) THEN NumEl(index.shape) ELSE 1]

ExpandShape(viewed, src, dim) ==
  [src.shape EXCEPT ![Pos(dim, Rank(src))] = viewed.shape[Pos(dim, Rank(src))]]

ExpandLower(index, src, dim) ==
  LET viewed == View(index, ViewShape(index, src, dim))
  IN [ok |-> TRUE, t |-> Expand(viewed, ExpandShape(viewed, src, dim))]

\* _expand_index(index, src, dim): [ok, t]; ok = FALSE is a raised shape error
ExpandIndex(index, src, dim) ==
  IF Rank(index) = Rank(src)
  THEN ExpandSame(index, src)
  ELSE ExpandLower(index, src, dim)

\* ------------------------------------------- scatter and gather primitives
\* Tensor.scatter_add / scatter_reduce(dim, index, src) on self = out visit every
\* coordinate c of index and combine src[c] into out at c with its dim-th
\* position replaced by index[c].
\* mutant of Target: the id is ignored, every element lands in slot 0
TargetZero(c, p, idx) == [c EXCEPT ![p] = 0]

Target(c, p, idx) == [c EXCEPT ![p] = idx.data[c]]

\* the argument checks of scatter_add, scatter_reduce and gather; a failed
\* check raises
ScatterOk(outShape, p, idx, srcShape) ==
  /\ Len(idx.shape) = Len(srcShape)
  /\ \A d \in 1 .. Len(idx.shape) :
       /\ idx.shape[d] <= srcShape[d]
       /\ d # p => idx.shape[d] <= outShape[d]
  /\ \A c \in Coords(idx.shape) : idx.data[c] >= 0 /\ idx.data[c] < outShape[p]

\* mutant of AddElem: scatter instead of scatter_add, the value overwrites
AddElemOverwrite(out, p, idx, arr, c) ==
  [out EXCEPT !.data[Target(c, p, idx)] = arr.data[c]]

\* one element's contribution of scatter_add
AddElem(out, p, idx, arr, c) ==
  [out EXCEPT !.data[Target(c, p, idx)] = Add(@, arr.data[c])]

\* one element's contribution of scatter_reduce(reduce="amax",
\* include_self=False): the first value to reach a slot replaces the initial
\* value, later ones combine with amax.  The slots reached so far are those
\* targeted by the elements no longer pending.
Touched(p, idx, pend) == {Target(c, p, idx) : c \in Coords(idx.shape) \ pend}

AmaxElem(out, p, idx, arr, c, pend) ==
  [out EXCEPT !.data[Target(c, p, idx)] =
     IF Target(c, p, idx) \in Touched(p, idx, pend)
     THEN Amax(@, arr.data[c])
     ELSE arr.data[c]]

RECURSIVE AddFold(_, _, _, _, _)
\* scatter_add applied to the first k elements in row-major order
AddFold(out, p, idx, arr, k) ==
  IF k = 0 THEN out
  ELSE AddElem(AddFold(out, p, idx, arr, k - 1), p, idx, arr,
               Unflat(k - 1, idx.shape))

RECURSIVE AmaxFold(_, _, _, _, _)
\* scatter_reduce amax applied to the first k elements in row-major order
AmaxFold(out, p, idx, arr, k) ==
  IF k = 0 THEN out
  ELSE AmaxElem(AmaxFold(out, p, idx, arr, k - 1), p, idx, arr,
                Unflat(k - 1, idx.shape),
                {c \in Coords(idx.shape) : FlatPos(c, idx.shape) >= k - 1})

\* mutant of Gather: every element reads slot 0
GatherSlotZero(t, p, idx) ==
  [shape |-> idx.shape,
   data |-> [c \in Coords(idx.shape) |-> t.data[[c EXCEPT ![p] = 0]]]]

\* t.gather(dim, index): the value of t at each element's target slot
Gather(t, p, idx) ==
  LET at(c) == t.data[Target(c, p, idx)] IN Tensor(idx.shape, [c \in Coords(idx.shape) |-> at(c)])

\* shapes of an elementwise binary operation: broadcast or raise
Broadcastable(s1, s2) ==
  /\ Len(s1) = Len(s2)
  /\ \A i \in 1 .. Len(s1) : s1[i] = s2[i] \/ s1[i] = 1 \/ s2[i] = 1

BroadcastShape(s1, s2) ==
  [i \in 1 .. Len(s1) |-> IF s1[i] >= s2[i] THEN s1[i] ELSE s2[i]]

\* mutant of WhereNegInf: the condition is inverted
WhereInverted(out) ==
  [shape |-> out.shape,
   data |-> [c \in Coords(out.shape) |->
               IF out.data[c] # NegInf THEN 0 ELSE out.data[c]]]

\* torch.where(out == -inf, zeros_like(out), out)
WhereNegInf(out) ==
  LET at(c) == IF out.data[c] = NegInf THEN 0 ELSE out.data[c]
  IN Tensor(out.shape, [c \in Coords(out.shape) |-> at(c)])

\* ------------------------------------------------------- the four functions
None == -1      \* dim_size not given

\* dim_size = int(index.max().item()) + 1 when not given
MaxId(index) ==
  CHOOSE m \in {index.data[c] : c \in Coords(index.shape)} :
    \A c \in Coords(index.shape) : index.data[c] <= m

DimSize(index, dim_size) ==
  IF dim_size = None THEN MaxId(index) + 1 ELSE dim_size

\* mutant of OutShape: dim is ignored, the first size is replaced
OutShapeFirst(src, dim, G) == [src.shape EXCEPT ![1] = G]

\* shape = list(src.shape); shape[dim] = dim_size
OutShape(src, dim, G) == [src.shape EXCEPT ![Pos(dim, Rank(src))] = G]

Failed == [ok |-> FALSE, t |-> NoTensor]

\* what a scatter call sets up before its element loop: the expanded index
\* and the output shape, or a raised error
Setup(arr, index, dim, G) ==
  LET e == ExpandIndex(index, arr, dim)
      shape == OutShape(arr, dim, G)
  IN IF e.ok /\ ScatterOk(shape, Pos(dim, Rank(arr)), e.t, arr.shape)
     THEN [ok |-> TRUE, idx |-> e.t, shape |-> shape]
     ELSE [ok |-> FALSE, idx |-> NoTensor, shape |-> <<0>>]

\* scatter_sum, its elements added in row-major order
ScatterSumFn(src, index, dim, dim_size) ==
  LET G == DimSize(index, dim_size)
      su == Setup(src, index, dim, G)
  IN IF ~su.ok THEN Failed
     ELSE [ok |-> TRUE,
           t |-> AddFold(Full(su.shape, 0), Pos(dim, Rank(src)), su.idx, src,
                         NumEl(su.idx.shape))]

\* first output of scatter_max, its elements reduced in row-major order
ScatterMaxFn(src, index, dim, dim_size) ==
  LET G == DimSize(index, dim_size)
      su == Setup(src, index, dim, G)
  IN IF ~su.ok THEN Failed
     ELSE [ok |-> TRUE,
           t |-> WhereNegInf(AmaxFold(Full(su.shape, NegInf), Pos(dim, Rank(src)),
                                      su.idx, src, NumEl(su.idx.shape)))]

\* mutant of CenterExp: the group maximum is not subtracted
CenterExpNoMax(src, max_vals, p, idx) ==
  [ok |-> Len(src.shape) = Len(idx.shape)
          /\ \A i \in 1 .. Len(src.shape) :
                src.shape[i] = idx.shape[i] \/ src.shape[i] = 1 \/ idx.shape[i] = 1,
   t |-> [shape |-> src.shape,
          data |-> [c \in Coords(src.shape) |-> Exp(src.data[c])]]]

\* src_centered = src - max_vals.gather(dim, index_expanded); src_exp = exp
CenterExp(src, max_vals, p, idx) ==
  LET g == Gather(max_vals, p, idx)
      at(c) == Exp(Sub(src.data[Clip(c, src.shape)], g.data[Clip(c, g.shape)]))
  IN IF Broadcastable(src.shape, g.shape)
     THEN [ok |-> TRUE, t |-> Tensor(BroadcastShape(src.shape, g.shape), [c \in Coords(BroadcastShape(src.shape, g.shape)) |-> at(c)])]
     ELSE Failed

\* src_exp / sum_exp.gather(dim, index_expanded).clamp(min=1e-12)
Normalize(src_exp, sum_exp, p, idx) ==
  LET g == Gather(sum_exp, p, idx)
      at(c) == Div(src_exp.data[Clip(c, src_exp.shape)],
                   Clamp(g.data[Clip(c, g.shape)]))
  IN IF Broadcastable(src_exp.shape, g.shape)
     THEN [ok |-> TRUE, t |-> Tensor(BroadcastShape(src_exp.shape, g.shape), [c \in Coords(BroadcastShape(src_exp.shape, g.shape)) |-> at(c)])]
     ELSE Failed

\* scatter_softmax with both reductions in row-major order
ScatterSoftmaxFn(src, index, dim, dim_size) ==
  LET G == DimSize(index, dim_size)
      p == Pos(dim, Rank(src))
      e == ExpandIndex(index, src, dim)
      mx == ScatterMaxFn(src, index, dim, G)
      ex == IF e.ok /\ mx.ok THEN CenterExp(src, mx.t, p, e.t) ELSE Failed
      sm == IF ex.ok THEN ScatterSumFn(ex.t, index, dim, G) ELSE Failed
  IN IF sm.ok THEN Normalize(ex.t, sm.t, p, e.t) ELSE Failed

\* ------------------------------------------------------------------- inputs
\* element values of a value source: zero, the largest finite value and both
\* infinities.  Sums and differences of these are computed by the model's
\* format exactly as by an IEEE format (exactly, or overflowing to infinity).
SrcVals == {NegInf, 0, MaxFinite, PosInf}

Ids == 0 .. MaxG - 1

ShapesOfRank(r) ==
  IF r = 1 THEN {<<n>> : n \in 1 .. MaxLen} ELSE [1 .. r -> 1 .. MaxSide]

\* the source 1.0, 2.0, 3.0, ... laid out in the given shape
Ramp(shape) ==
  LET at(c) == (FlatPos(c, shape) + 1) * One IN Tensor(shape, [c \in Coords(shape) |-> at(c)])

ValueTensors(shape) ==
  {[shape |-> shape, data |-> d] : d \in [Coords(shape) -> SrcVals]}

IdTensors(shape) ==
  IF NumEl(shape) <= MaxElems
  THEN {[shape |-> shape, data |-> d] : d \in [Coords(shape) -> Ids]}
  ELSE {LET at(c) == FlatPos(c, shape) % MaxG IN Tensor(shape, [c \in Coords(shape) |-> at(c)])}

\* a rank-1 index whose ids do not decrease (elements grouped in segments)
Segmented(t) ==
  \A i, j \in 0 .. t.shape[1] - 1 : i <= j => t.data[<<i>>] <= t.data[<<j>>]

\* the value inputs: rank-1 sources of every value, one id per element, the
\* ids in segments (every placement of the values on the ids is among them)
ValueInputs ==
  UNION {[src : ValueTensors(s), index : {t \in IdTensors(s) : Segmented(t)},
          dim : {0}, dim_size : {None}] : s \in ShapesOfRank(1)}

\* the shape inputs: the sources 1.0, 2.0, ... of the given shapes with an
\* index of every shape of rank up to the source's and every dim (negative
\* dims included)
ShapeInputs(shapes, sizes) ==
  UNION {[src : {Ramp(s)},
          index : UNION {IdTensors(t) : t \in UNION {ShapesOfRank(q) : q \in 0 .. Len(s)}},
          dim : (0 - Len(s)) .. (Len(s) - 1),
          dim_size : sizes] : s \in shapes}

\* for the scatter functions: sources of rank 1 and 2 of up to MaxElems elements
ScatterShapeInputs ==
  ShapeInputs({s \in ShapesOfRank(1) \cup ShapesOfRank(2) : NumEl(s) <= MaxElems},
              {None, 1, MaxG})

\* for _expand_index: sources of rank 1, 2 and 3
ExpandShapeInputs ==
  ShapeInputs(ShapesOfRank(1) \cup ShapesOfRank(2) \cup ShapesOfRank(3), {None})

Inputs(o) ==
  IF o = "expand" THEN ExpandShapeInputs
  ELSE ValueInputs \cup ScatterShapeInputs

\* ------------------------------------------------------------ state machine
VARIABLES
  op,         \* the function called: "sum", "max", "softmax" or "expand"
  src, index, dim, dim_size,     \* its arguments
  pc,         \* "call", "scatter_add", "scatter_amax", "done" or "error"
  idx,        \* index_expanded
  out,        \* the output tensor of the scatter in progress
  pending,    \* coordinates whose contribution is still to be applied
  max_vals,   \* scatter_softmax: max_vals
  src_exp,    \* scatter_softmax: src_exp
  result,     \* the value returned
  argmax      \* scatter_max: the second value returned

vars == <<op, src, index, dim, dim_size, pc, idx, out, pending, max_vals,
          src_exp, result, argmax>>

args == <<op, src, index, dim, dim_size>>

G == DimSize(index, dim_size)
P == Pos(dim, Rank(src))

InitWith(o, inputs) ==
  /\ op = o
  /\ \E in \in inputs :
       /\ src = in.src
       /\ index = in.index
       /\ dim = in.dim
       /\ dim_size = in.dim_size
  /\ pc = "call"
  /\ idx = NoTensor
  /\ out = NoTensor
  /\ pending = {}
  /\ max_vals = NoTensor
  /\ src_exp = NoTensor
  /\ result = NoTensor
  /\ argmax = NoTensor

InitOp(o) == InitWith(o, Inputs(o))

Init == \E o \in {"sum", "max", "softmax", "expand"} : InitOp(o)

\* start the element loop of a scatter of arr with every output slot at v
Start(arr, v, next) ==
  LET su == Setup(arr, index, dim, G)
  IN IF su.ok
     THEN /\ idx' = su.idx
          /\ out' = Full(su.shape, v)
          /\ pending' = Coords(su.idx.shape)
          /\ pc' = next
     ELSE /\ pc' = "error"
          /\ UNCHANGED <<idx, out, pending>>

\* scatter_sum up to the scatter_add call
SumCall ==
  /\ pc = "call" /\ op = "sum"
  /\ Start(src, 0, "scatter_add")
  /\ UNCHANGED <<args, max_vals, src_exp, result, argmax>>

\* scatter_max up to the scatter_reduce call
MaxCall ==
  /\ pc = "call" /\ op = "max"
  /\ Start(src, NegInf, "scatter_amax")
  /\ UNCHANGED <<args, max_vals, src_exp, result, argmax>>

\* scatter_softmax up to the scatter_reduce call inside scatter_max
SoftmaxCall ==
  /\ pc = "call" /\ op = "softmax"
  /\ Start(src, NegInf, "scatter_amax")
  /\ UNCHANGED <<args, max_vals, src_exp, result, argmax>>

\* _expand_index called on its own
ExpandCall ==
  /\ pc = "call" /\ op = "expand"
  /\ LET e == ExpandIndex(index, src, dim)
     IN IF e.ok
        THEN result' = e.t /\ pc' = "done"
        ELSE result' = result /\ pc' = "error"
  /\ UNCHANGED <<args, idx, out, pending, max_vals, src_exp, argmax>>

\* The element loop of a scatter runs in no specified order.  Contributions
\* to different slots write different elements of out and commute, so only
\* the order within a slot can show in the output: the slots are taken in
\* row-major order and the pending elements of a slot in every order.
Ready ==
  {c \in pending :
     \A d \in pending :
       FlatPos(Target(c, P, idx), out.shape) <= FlatPos(Target(d, P, idx), out.shape)}

\* out.scatter_add: one more element
ScatterAdd ==
  /\ pc = "scatter_add"
  /\ \E c \in Ready :
       /\ out' = AddElem(out, P, idx, IF op = "softmax" THEN src_exp ELSE src, c)
       /\ pending' = pending \ {c}
  /\ UNCHANGED <<args, pc, idx, max_vals, src_exp, result, argmax>>

\* out.scatter_reduce amax: one more element
ScatterAmax ==
  /\ pc = "scatter_amax"
  /\ \E c \in Ready :
       /\ out' = AmaxElem(out, P, idx, src, c, pending)
       /\ pending' = pending \ {c}
  /\ UNCHANGED <<args, pc, idx, max_vals, src_exp, result, argmax>>

\* scatter_sum returns
SumReturn ==
  /\ pc = "scatter_add" /\ op = "sum" /\ pending = {}
  /\ result' = out
  /\ pc' = "done"
  /\ UNCHANGED <<args, idx, out, pending, max_vals, src_exp, argmax>>

\* scatter_max replaces -inf and returns
MaxReturn ==
  /\ pc = "scatter_amax" /\ op = "max" /\ pending = {}
  /\ result' = WhereNegInf(out)
  /\ argmax' = Full(out.shape, 0)
  /\ pc' = "done"
  /\ UNCHANGED <<args, idx, out, pending, max_vals, src_exp>>

\* scatter_softmax: scatter_max has returned; centre, exponentiate and enter
\* scatter_sum up to its scatter_add call
SoftmaxExp ==
  /\ pc = "scatter_amax" /\ op = "softmax" /\ pending = {}
  /\ max_vals' = WhereNegInf(out)
  /\ LET ex == CenterExp(src, WhereNegInf(out), P, idx)
         su == IF ex.ok THEN Setup(ex.t, index, dim, G)
               ELSE [ok |-> FALSE, idx |-> NoTensor, shape |-> <<0>>]
     IN IF su.ok
        THEN /\ src_exp' = ex.t
             /\ out' = Full(su.shape, 0)
             /\ pending' = Coords(su.idx.shape)
             /\ pc' = "scatter_add"
        ELSE /\ pc' = "error"
             /\ UNCHANGED <<src_exp, out, pending>>
  /\ UNCHANGED <<args, idx, result, argmax>>

\* scatter_softmax normalises and returns
SoftmaxReturn ==
  /\ pc = "scatter_add" /\ op = "softmax" /\ pending = {}
  /\ LET r == Normalize(src_exp, out, P, idx)
     IN IF r.ok
        THEN result' = r.t /\ pc' = "done"
        ELSE result' = result /\ pc' = "error"
  /\ UNCHANGED <<args, idx, out, pending, max_vals, src_exp, argmax>>

Next ==
  \/ SumCall \/ MaxCall \/ SoftmaxCall \/ ExpandCall
  \/ ScatterAdd \/ ScatterAmax
  \/ SumReturn \/ MaxReturn \/ SoftmaxExp \/ SoftmaxReturn

Spec == Init /\ [][Next]_vars

\* one function at a time
SpecSum == InitOp("sum") /\ [][SumCall \/ ScatterAdd \/ SumReturn]_vars
SpecMax == InitOp("max") /\ [][MaxCall \/ ScatterAmax \/ MaxReturn]_vars
SpecSoftmax ==
  InitOp("softmax")
  /\ [][SoftmaxCall \/ ScatterAmax \/ SoftmaxExp \/ ScatterAdd \/ SoftmaxReturn]_vars
SpecExpand == InitOp("expand") /\ [][ExpandCall]_vars

\* scatter_sum and scatter_max on the shape inputs
InitShape == \E o \in {"sum", "max"} : InitWith(o, ScatterShapeInputs)
SpecShape ==
  InitShape
  /\ [][SumCall \/ ScatterAdd \/ SumReturn \/ MaxCall \/ ScatterAmax \/ MaxReturn]_vars

\* ------------------------------------------------- vocabulary of the claims
\* The reduction axis, the group count and each element's group id, read off
\* the arguments of the call.
Axis == IF dim < 0 THEN dim + Rank(src) + 1 ELSE dim + 1

GroupCount ==
  IF dim_size # None THEN dim_size
  ELSE CHOOSE m \in 1 .. MaxG :
         /\ \E c \in Coords(index.shape) : index.data[c] = m - 1
         /\ \A c \in Coords(index.shape) : index.data[c] < m

ExpectedShape ==
  [i \in 1 .. Rank(src) |-> IF i = Axis THEN GroupCount ELSE src.shape[i]]

\* the index assigns one id to every element of src along dim
OneIdPerElement ==
  IF Rank(index) = Rank(src)
  THEN \A i \in 1 .. Rank(src) :
         index.shape[i] = src.shape[i] \/ index.shape[i] = 1
  ELSE NumEl(index.shape) = src.shape[Axis]

IdOf(c) ==
  IF Rank(index) = Rank(src)
  THEN index.data[[i \in 1 .. Rank(src) |-> IF index.shape[i] = 1 THEN 0 ELSE c[i]]]
  ELSE index.data[Unflat(c[Axis], index.shape)]

\* the elements of src that belong to output slot o: same position in the
\* parallel dimensions, id equal to o's position along dim
MembersOf(o) ==
  {c \in Coords(src.shape) :
     /\ IdOf(c) = o[Axis]
     /\ \A i \in 1 .. Rank(src) : i # Axis => c[i] = o[i]}

SlotOf(c) == [c EXCEPT ![Axis] = IdOf(c)]

Returned(o) == pc = "done" /\ op = o

RECURSIVE OrderedSums(_, _)
\* every value that adding the src elements at S to acc, in some order, gives
OrderedSums(acc, S) ==
  IF S = {} THEN {acc}
  ELSE UNION {OrderedSums(Add(acc, src.data[c]), S \ {c}) : c \in S}

RECURSIVE ExactSum(_)
ExactSum(S) ==
  IF S = {} THEN 0
  ELSE LET c == CHOOSE c \in S : TRUE IN src.data[c] + ExactSum(S \ {c})

\* the additions into slot o are exact: finite values whose sum is in range
ExactGroup(o) ==
  /\ \A c \in MembersOf(o) : IsFinite(src.data[c]) /\ src.data[c] >= 0
  /\ ExactSum(MembersOf(o)) <= MaxFinite

\* C1: when scatter_sum returns for an index that gives one id per element
\* along dim, its output has one slot per group and parallel position, and the
\* value of slot o is the sum (in the element type) of exactly the src elements
\* that belong to o: 0 when there is none, their exact sum when it is
\* representable.
C1_SumOfMembers ==
  (Returned("sum") /\ OneIdPerElement) =>
    /\ DOMAIN result.data = Coords(ExpectedShape)
    /\ \A o \in Coords(ExpectedShape) :
         /\ result.data[o] \in OrderedSums(0, MembersOf(o))
         /\ MembersOf(o) = {} => result.data[o] = 0
         /\ ExactGroup(o) => result.data[o] = ExactSum(MembersOf(o))

\* a rank-2 call has returned with a slot of two members and an empty slot
C1_Witness ==
  /\ Returned("sum") /\ OneIdPerElement /\ Rank(src) = 2
  /\ \E o \in Coords(ExpectedShape) : Cardinality(MembersOf(o)) = 2
  /\ \E o \in Coords(ExpectedShape) : MembersOf(o) = {}

MaxOf(S) == CHOOSE m \in {src.data[c] : c \in S} : \A c \in S : src.data[c] <= m

\* C2: when scatter_max returns, its first output at slot o is the maximum of
\* the src elements that belong to o (negative infinity included), and 0 when
\* o has no element.
C2_MaxOfMembers ==
  (Returned("max") /\ OneIdPerElement) =>
    \A o \in Coords(ExpectedShape) :
      result.data[o] = IF MembersOf(o) = {} THEN 0 ELSE MaxOf(MembersOf(o))

\* C7: when scatter_sum or scatter_max returns, every returned array has the
\* shape of src with the size at dim replaced by the group count.
C7_OutputShape ==
  (pc = "done" /\ op \in {"sum", "max"}) =>
    /\ result.shape = ExpectedShape
    /\ DOMAIN result.data = Coords(ExpectedShape)
    /\ op = "max" => argmax.shape = ExpectedShape

\* scatter_max has returned both arrays for a rank-2 source and a negative dim,
\* with the group count inferred, and the output's shape is not src's
C7_Witness ==
  /\ pc = "done" /\ op = "max" /\ Rank(src) = 2 /\ dim < 0
  /\ dim_size = None /\ ExpectedShape # src.shape

\* C8 (as claimed): whatever the order of the element additions, scatter_sum
\* returns the array that adding them in row-major order gives.
C8_AnyOrderSameOutput ==
  Returned("sum") => result = ScatterSumFn(src, index, dim, dim_size).t

\* C8 (amended): when the additions into every slot are exact, every order of
\* the element additions ends in the same output array.
C8_ExactOrderIndependent ==
  (Returned("sum") /\ OneIdPerElement /\ \A o \in Coords(ExpectedShape) : ExactGroup(o)) =>
    result = ScatterSumFn(src, index, dim, dim_size).t

\* three elements have been added into one slot
C8_Witness ==
  /\ Returned("sum") /\ OneIdPerElement
  /\ \A o \in Coords(ExpectedShape) : ExactGroup(o)
  /\ \E o \in Coords(ExpectedShape) :
       Cardinality(MembersOf(o)) = 3 /\ result.data[o] > 0

\* a number that is not negative (NaN is not)
NonNeg(v) == v # NaN /\ v >= 0

\* the tolerance 1e-5 of the claims, in quanta
Tol == Scale \div 100000

RECURSIVE ResultSum(_)
\* the sum of the returned values at the coordinates S
ResultSum(S) ==
  IF S = {} THEN 0
  ELSE LET c == CHOOSE c \in S : TRUE IN Add(result.data[c], ResultSum(S \ {c}))

\* slot o has a finite element and its sum of exponentials (still in out when
\* scatter_softmax returns) is above the floor
SumsToOne(o) ==
  ((\E c \in MembersOf(o) : IsFinite(src.data[c]))
    /\ out.data[o] # NaN /\ out.data[o] > 0) =>
      /\ IsFinite(ResultSum(MembersOf(o)))
      /\ Abs(ResultSum(MembersOf(o)) - One) <= Tol

NoPosInfWith(c) ==
  IF OneIdPerElement
  THEN \A m \in MembersOf(SlotOf(c)) : src.data[m] # PosInf
  ELSE \A m \in Coords(src.shape) : src.data[m] # PosInf

Shifted(c) ==
  [shape |-> src.shape,
   data |-> [x \in DOMAIN src.data |-> Add(src.data[x], c)]]

Shifts == {One, 0 - One, MaxFinite}

\* src + c is computed exactly
ExactShift(c) ==
  \A x \in DOMAIN src.data :
    IsFinite(src.data[x]) => IsFinite(src.data[x] + c)

\* src + c is computed as an IEEE format computes it: exactly, or overflowing
\* because both operands are the largest finite value
ShiftAsIEEE(c) ==
  \A x \in DOMAIN src.data :
    IsFinite(src.data[x]) =>
      (IsFinite(src.data[x] + c) \/ (src.data[x] = MaxFinite /\ c = MaxFinite))

\* C4 (as claimed): scatter_softmax(src + c) equals scatter_softmax(src) element
\* for element, for every scalar c.
C4_ShiftInvariant ==
  Returned("softmax") =>
    \A c \in Shifts :
      ShiftAsIEEE(c) =>
        ScatterSoftmaxFn(Shifted(c), index, dim, dim_size) = [ok |-> TRUE, t |-> result]

\* C4 (amended): scatter_softmax(src + c) equals scatter_softmax(src) element
\* for element, for every scalar c for which src + c is computed exactly.
C4_ExactShiftInvariant ==
  Returned("softmax") =>
    \A c \in Shifts :
      ExactShift(c) =>
        ScatterSoftmaxFn(Shifted(c), index, dim, dim_size) = [ok |-> TRUE, t |-> result]

\* a call has returned unequal finite outputs for a source that 1.0 shifts exactly
C4_Witness ==
  /\ Returned("softmax") /\ OneIdPerElement /\ ExactShift(One)
  /\ \E c1, c2 \in DOMAIN result.data :
       /\ SlotOf(c1) = SlotOf(c2)
       /\ IsFinite(result.data[c1]) /\ IsFinite(result.data[c2])
       /\ 0 < result.data[c1] /\ result.data[c1] < result.data[c2]

\* C5 (as claimed): the only element of a group gets output exactly 1.0,
\* whatever its value.
C5_SingletonIsOne ==
  (Returned("softmax") /\ OneIdPerElement) =>
    \A c \in Coords(src.shape) :
      MembersOf(SlotOf(c)) = {c} => result.data[c] = One

\* C5 (amended): the only element of a group gets output exactly 1.0 when its
\* value is finite.
C5_FiniteSingletonIsOne ==
  (Returned("softmax") /\ OneIdPerElement) =>
    \A c \in Coords(src.shape) :
      (MembersOf(SlotOf(c)) = {c} /\ IsFinite(src.data[c])) => result.data[c] = One

\* a finite element alone in its group, beside a group of two
C5_Witness ==
  /\ Returned("softmax") /\ OneIdPerElement
  /\ \E c \in Coords(src.shape) :
       /\ MembersOf(SlotOf(c)) = {c} /\ IsFinite(src.data[c])
       /\ result.data[c] = One
  /\ \E o \in Coords(ExpectedShape) : Cardinality(MembersOf(o)) = 2

\* src with the element at x changed to v
WithElem(x, v) ==
  [shape |-> src.shape,
   data |-> [c \in Coords(src.shape) |-> IF c = x THEN v ELSE src.data[c]]]

\* src with every element outside M changed to v
WithOthers(M, v) ==
  [shape |-> src.shape,
   data |-> [c \in Coords(src.shape) |-> IF c \in M THEN src.data[c] ELSE v]]

\* C10: the outputs of scatter_softmax on a group depend only on the src values
\* of that group's elements: a source that differs from src in one element of
\* another group, or in every element outside the group, gets the same outputs
\* on the group.
C10_GroupIsolation ==
  (Returned("softmax") /\ OneIdPerElement) =>
    /\ \A x \in Coords(src.shape), v \in SrcVals :
         LET r2 == ScatterSoftmaxFn(WithElem(x, v), index, dim, dim_size)
         IN /\ r2.ok
            /\ \A c \in Coords(src.shape) :
                 SlotOf(c) # SlotOf(x) => r2.t.data[c] = result.data[c]
    /\ \A o \in Coords(ExpectedShape), v \in SrcVals :
         LET r2 == ScatterSoftmaxFn(WithOthers(MembersOf(o), v), index, dim, dim_size)
         IN /\ r2.ok
            /\ \A c \in MembersOf(o) : r2.t.data[c] = result.data[c]

\* a rank-2 call has returned with two non-empty groups at one parallel position
C10_Witness ==
  /\ Returned("softmax") /\ OneIdPerElement /\ Rank(src) = 2
  /\ \E o1, o2 \in Coords(ExpectedShape) :
       /\ o1 # o2
       /\ \A i \in 1 .. Rank(src) : i # Axis => o1[i] = o2[i]
       /\ MembersOf(o1) # {} /\ MembersOf(o2) # {}

\* C6: _expand_index returns an index array of exactly src's shape or raises;
\* it never returns an array of another shape.
C6_ExpandedHasSrcShape ==
  Returned("expand") => result.shape = src.shape

\* C9: for a rank-3 src and a rank-1 index of length src.shape[dim],
\* _expand_index returns an array of src's shape whose element at every
\* coordinate is index[k], k the coordinate along dim.
C9_Rank1Expansion ==
  (op = "expand" /\ pc # "call" /\ Rank(src) = 3 /\ Rank(index) = 1
     /\ index.shape[1] = src.shape[Axis]) =>
    /\ pc = "done"
    /\ result.shape = src.shape
    /\ \A c \in Coords(src.shape) : result.data[c] = index.data[<<c[Axis]>>]

\* an index of two different ids expanded along the middle axis of a 2x2x2
\* source, dim given as a negative number
C9_Witness ==
  /\ Returned("expand") /\ Rank(src) = 3 /\ Rank(index) = 1
  /\ src.shape = <<2, 2, 2>> /\ dim = -2
  /\ index.shape[1] = 2 /\ index.data[<<0>>] # index.data[<<1>>]
=============================================================================
